---- MODULE Spec2Model ----
(***************************************************************************)
(* A model of the STIG audit tool (src/main.py): the two check algorithms  *)
(* (_check_global, _check_hier), their dispatcher (check) and the loop of  *)
(* main that loads, filters, evaluates, reports and counts the rules.      *)
(*                                                                         *)
(* The configuration tree (CiscoConfParse) and the regular expressions     *)
(* (re) are libraries the program calls: a configuration is a forest of    *)
(* lines in document order, a pattern is a string of a small regex         *)
(* language, and the three library calls the program makes (find_objects,  *)
(* re_search_children, re.search) are operators over them.                 *)
(***************************************************************************)
EXTENDS Integers, Sequences, FiniteSets, TLC

\* ------------------------------------------------------------------ bounds
MaxNodes == 3      \* lines of a configuration
MaxCnt == 2        \* largest text_cnt of a rule
MaxRules == 3      \* rule files of a catalog (short runs)
LongCatalog == 257 \* rule files of the long catalog (exit-status runs)

\* ------------------------------------------------------- regular expressions
\* The texts a configuration line can have.
Texts == {"p", "w", "t"}

\* The patterns a rule can carry: the empty regex, single lines, an
\* alternation, and a regex that does not compile.
Patterns == {"", "p", "w", "t", "w|t", "("}

\* YAML scalars a `when` field can hold besides a pattern.
YamlTrue == "<true>"
YamlFalse == "<false>"

\* re.compile: whether the value is a pattern that compiles.
Compiles(pat) == pat \in Patterns \ {"("}

\* re.search(pat, text) for a pattern that compiles: the empty regex matches
\* every line, a|b matches the lines a or b matches.
re_search(pat, text) ==
    CASE pat = "" -> TRUE
      [] pat = "w|t" -> text \in {"w", "t"}
      [] OTHER -> text = pat

\* Python's truth value of a field value (a string is true unless empty).
Truthy(v) == v # "" /\ v # YamlFalse

\* --------------------------------------------------------- configuration tree
\* Lines are numbered 1..n in document order; parent[i] = 0 for a top-level
\* line. Indentation makes the parent of line i either nothing, line i-1 or
\* an ancestor of line i-1.
RECURSIVE AncestorsOrSelf(_, _)
AncestorsOrSelf(parent, i) ==
    IF i = 0 THEN {} ELSE {i} \cup AncestorsOrSelf(parent, parent[i])

WellNested(n, parent) ==
    \A i \in 1..n : parent[i] = 0 \/ (i > 1 /\ parent[i] \in AncestorsOrSelf(parent, i - 1))

TreesOfSize(n) ==
    { [n |-> n, parent |-> pr, text |-> tx] :
        pr \in { f \in [1..n -> 0..n] : WellNested(n, f) }, tx \in [1..n -> Texts] }

Trees == UNION { TreesOfSize(n) : n \in 0..MaxNodes }

\* The lines 1..n as a sequence in document order.
Lines(tree) == [i \in 1..tree.n |-> i]

\* obj.children: the immediate children of a line, in document order.
children(tree, obj) == SelectSeq(Lines(tree), LAMBDA c : tree.parent[c] = obj)

\* obj.all_children: every descendant of a line, in document order.
all_children(tree, obj) ==
    SelectSeq(Lines(tree),
              LAMBDA c : c # obj /\ obj \in AncestorsOrSelf(tree.parent, c))

\* parse.find_objects(pattern): every line of the configuration the pattern
\* matches, in document order.
find_objects(tree, pat) ==
    SelectSeq(Lines(tree), LAMBDA i : re_search(pat, tree.text[i]))

\* SearchScope had the call passed recurse=True: every descendant.
SearchScope_Recursive(tree, obj) == all_children(tree, obj)

\* The lines re_search_children looks at. The program calls it without the
\* recurse argument, whose default is False: the immediate children only.
SearchScope(tree, obj) == children(tree, obj)

\* parent.re_search_children(pattern): the lines of the scope the pattern
\* matches.
re_search_children(tree, obj, pat) ==
    SelectSeq(SearchScope(tree, obj), LAMBDA c : re_search(pat, tree.text[c]))

\* re_search_children hands the pattern to re.search once per line of the
\* scope, so a value that is no regex raises only when there is such a line;
\* find_objects compiles the pattern first and raises regardless.
SearchRaises(tree, obj, pat) ==
    ~Compiles(pat) /\ Len(SearchScope(tree, obj)) > 0

\* ----------------------------------------------------------------- rules
CheckKeys == {"parent", "when", "text", "text_cnt"}

\* A field that is absent holds this, so that two records that differ only in
\* an absent field are the same record.
Absent == "<absent>"

\* rule['check'][k] raises KeyError when the key is absent.
Has(chk, k) == k \in chk.keys

\* The outcome of a call: either the returned record or an exception.
Raised ==
    [raised |-> TRUE, success |-> "<raised>", pass |-> <<>>, fail |-> <<>>,
     na |-> <<>>, text_searched |-> <<>>]

Returned(success, pass, fail, na, searched) ==
    [raised |-> FALSE, success |-> success, pass |-> pass, fail |-> fail,
     na |-> na, text_searched |-> searched]

\* _check_global with >= for the == of line 52.
_check_global_AtLeast(tree, rule) ==
    LET chk == rule.check IN
    IF ~Has(chk, "text") \/ ~Compiles(chk.text) THEN Raised
    ELSE LET objs == find_objects(tree, chk.text) IN
         IF ~Has(chk, "text_cnt") THEN Raised
         ELSE IF Len(objs) >= chk.text_cnt
              THEN Returned("PASS", objs, <<>>, <<>>, <<>>)
              ELSE Returned("FAIL", <<>>, objs, <<>>, <<>>)

\* ------------------------------------------------------------ _check_global
_check_global(tree, rule) ==
    LET chk == rule.check IN
    IF ~Has(chk, "text") \/ ~Compiles(chk.text) THEN Raised
    ELSE LET objs == find_objects(tree, chk.text) IN
         IF ~Has(chk, "text_cnt") THEN Raised
         ELSE IF Len(objs) = chk.text_cnt
              THEN Returned("PASS", objs, <<>>, <<>>, <<>>)
              ELSE Returned("FAIL", <<>>, objs, <<>>, <<>>)

\* -------------------------------------------------------------- _check_hier
\* Verdict with the tests of lines 93 and 95 in the other order.
Verdict_NaFirst(pass_objs, fail_objs, na_objs) ==
    IF Len(na_objs) > 0 /\ Len(pass_objs) = 0 THEN "N/A"
    ELSE IF Len(fail_objs) > 0 THEN "FAIL"
    ELSE "PASS"

\* Lines 93-98: the verdict from the three lists.
Verdict(pass_objs, fail_objs, na_objs) ==
    IF Len(fail_objs) > 0 THEN "FAIL"
    ELSE IF Len(na_objs) > 0 /\ Len(pass_objs) = 0 THEN "N/A"
    ELSE "PASS"

\* Lines 83-84: whether the rule applies to the parent; "raise" when reading
\* or searching `when` raises.
Applies(tree, chk, parent) ==
    IF ~Has(chk, "when") THEN "raise"
    ELSE IF chk.when = YamlTrue THEN "yes"
    ELSE IF SearchRaises(tree, parent, chk.when) THEN "raise"
    ELSE IF ~Compiles(chk.when) THEN "no"
    ELSE IF Len(re_search_children(tree, parent, chk.when)) > 0 THEN "yes"
    ELSE "no"

\* Lines 85-89: the class of an applicable parent.
ClassOfApplicable(tree, chk, parent) ==
    IF ~Has(chk, "text") \/ SearchRaises(tree, parent, chk.text) THEN "raise"
    ELSE LET search == IF Compiles(chk.text)
                       THEN re_search_children(tree, parent, chk.text)
                       ELSE <<>> IN
         IF ~Has(chk, "text_cnt") THEN "raise"
         ELSE IF Len(search) = chk.text_cnt THEN "pass" ELSE "fail"

\* Lines 84-91: the class of a parent.
ClassOf(tree, chk, parent) ==
    LET applies == Applies(tree, chk, parent) IN
    IF applies = "raise" THEN "raise"
    ELSE IF applies = "no" THEN "na"
    ELSE ClassOfApplicable(tree, chk, parent)

\* Put with line 91 run for a failing parent too (the else of line 90 lost).
Put_FailAlsoNa(acc, class, parent) ==
    [acc EXCEPT !.pass = IF class = "pass" THEN Append(@, parent) ELSE @,
                !.fail = IF class = "fail" THEN Append(@, parent) ELSE @,
                !.na = IF class \in {"na", "fail"} THEN Append(@, parent) ELSE @,
                !.text_searched = IF class = "na" THEN @ ELSE Append(@, parent)]

\* Lines 87, 89, 91: the append to the list of the parent's class;
\* text_searched lists the parents line 85 was run for.
Put(acc, class, parent) ==
    [acc EXCEPT ![class] = Append(@, parent),
                !.text_searched = IF class = "na" THEN @ ELSE Append(@, parent)]

\* Lines 82-91: the loop over the parents, from the i-th on, with the lists
\* built so far.
RECURSIVE HierLoop(_, _, _, _, _)
HierLoop(tree, chk, parents, i, acc) ==
    IF i > Len(parents)
    THEN Returned(Verdict(acc.pass, acc.fail, acc.na), acc.pass, acc.fail, acc.na,
                  acc.text_searched)
    ELSE LET class == ClassOf(tree, chk, parents[i]) IN
         IF class = "raise" THEN Raised
         ELSE HierLoop(tree, chk, parents, i + 1, Put(acc, class, parents[i]))

_check_hier(tree, rule) ==
    LET chk == rule.check IN
    IF ~Has(chk, "parent") \/ ~Compiles(chk.parent) THEN Raised
    ELSE HierLoop(tree, chk, find_objects(tree, chk.parent), 1,
                  [pass |-> <<>>, fail |-> <<>>, na |-> <<>>, text_searched |-> <<>>])

\* -------------------------------------------------------------------- check
\* SelectsHier with `'parent' in rule['check']` for the .get of line 37.
SelectsHier_ByPresence(chk) == Has(chk, "parent")

\* rule['check'].get('parent'): hierarchical when the field holds a true value.
SelectsHier(chk) == Has(chk, "parent") /\ Truthy(chk.parent)

check(tree, rule) ==
    IF ~("check" \in rule.keys) THEN Raised
    ELSE IF SelectsHier(rule.check) THEN _check_hier(tree, rule)
    ELSE _check_global(tree, rule)

\* ----------------------------------------------------------- rule records
\* What yaml.safe_load makes of a rule file: it raises ("error"), returns
\* something that is no mapping ("scalar": None, a list, a string), or returns
\* a mapping ("record") with the keys it has.
MkCheck(ks, pv, wv, tv, c) ==
    [keys |-> ks,
     parent |-> IF "parent" \in ks THEN pv ELSE Absent,
     when |-> IF "when" \in ks THEN wv ELSE Absent,
     text |-> IF "text" \in ks THEN tv ELSE Absent,
     text_cnt |-> IF "text_cnt" \in ks THEN c ELSE 0]

NoCheck == MkCheck({}, Absent, Absent, Absent, 0)

MkRule(ks, tags, chk) ==
    [yaml |-> "record", keys |-> ks,
     part_of_stig |-> IF "part_of_stig" \in ks THEN tags ELSE {},
     check |-> IF "check" \in ks THEN chk ELSE NoCheck]

YamlError == [yaml |-> "error", keys |-> {}, part_of_stig |-> {}, check |-> NoCheck]
YamlScalar == [yaml |-> "scalar", keys |-> {}, part_of_stig |-> {}, check |-> NoCheck]
NoRule == [yaml |-> "<none>", keys |-> {}, part_of_stig |-> {}, check |-> NoCheck]

RuleKeys == {"part_of_stig", "check", "desc", "severity"}
Tags == {"CAT-A", "CAT-B"}

ParentValues == {"", "p", "("}
WhenValues == {YamlTrue, YamlFalse, "w", "("}
TextValues == {"t", "w|t", "("}

\* Every check record the evaluator is tried on.
Checks ==
    { MkCheck(ks, pv, wv, tv, c) :
        ks \in SUBSET CheckKeys, pv \in ParentValues, wv \in WhenValues,
        tv \in TextValues, c \in 0..MaxCnt }

\* The rules the evaluator is tried on: every check record, and a rule with
\* no check at all.
Rules ==
    { MkRule(RuleKeys, {"CAT-A"}, chk) : chk \in Checks }
        \cup { MkRule(RuleKeys \ {"check"}, {"CAT-A"}, NoCheck) }

\* The outcome variable before check is called.
NotCalled ==
    [raised |-> FALSE, success |-> "<none>", pass |-> <<>>, fail |-> <<>>,
     na |-> <<>>, text_searched |-> <<>>]

\* ------------------------------------------------------------ inputs of runs
\* interface-like configurations: a parent with a child and a grandchild, and
\* a parent with two children.
Chain == [n |-> 3, parent |-> <<0, 1, 2>>, text |-> <<"p", "w", "t">>]
Flat == [n |-> 3, parent |-> <<0, 1, 1>>, text |-> <<"p", "w", "t">>]
RunTrees == {Chain, Flat}

RunChecks ==
    { MkCheck({"text", "text_cnt"}, Absent, Absent, "t", 1),
      MkCheck({"text", "text_cnt"}, Absent, Absent, "w|t", 1),
      MkCheck(CheckKeys, "p", "t", "w|t", 2),
      MkCheck(CheckKeys, "p", YamlTrue, "t", 1),
      MkCheck({"text", "text_cnt"}, Absent, Absent, "(", 1),
      MkCheck({"parent", "text", "text_cnt"}, "p", Absent, "t", 1) }

RunCatalog ==
    {YamlError, YamlScalar} \cup
    { MkRule(ks, tags, chk) :
        ks \in {RuleKeys, RuleKeys \ {"desc"}, RuleKeys \ {"part_of_stig"},
                RuleKeys \ {"check"}},
        tags \in {{"CAT-A"}, {"CAT-B"}},
        chk \in RunChecks }

\* A long catalog of well-formed rules over one configuration: a rule that
\* passes, one that fails, one that is not applicable and one that carries
\* another tag.
ExitCatalog ==
    { MkRule(RuleKeys, {"CAT-A"}, MkCheck({"text", "text_cnt"}, Absent, Absent, "t", 1)),
      MkRule(RuleKeys, {"CAT-A"}, MkCheck({"text", "text_cnt"}, Absent, Absent, "w|t", 1)),
      MkRule(RuleKeys, {"CAT-A"}, MkCheck(CheckKeys, "p", "t", "w|t", 2)),
      MkRule(RuleKeys, {"CAT-B"}, MkCheck({"text", "text_cnt"}, Absent, Absent, "w|t", 1)) }

\* What a rule file of the catalog directory can hold.
RuleFiles(dir) ==
    CASE dir = "short" -> RunCatalog
      [] dir = "long" -> ExitCatalog
      [] OTHER -> {}

\* --------------------------------------------------------------- the state
VARIABLES
    parse_ok,        \* CiscoConfParse(args.config_file) returned
    parse,           \* the configuration tree
    os_type_found,   \* --os_type given, or a !@#type: marker in the configuration
    stigs,           \* the requested tags
    failonly,        \* args.failonly
    verbosity,       \* args.verbosity
    rules_dir,       \* the catalog directory rules/<os_type>
    n_files,         \* len(rule_files)
    pc,              \* where main is
    idx,             \* rule files handled so far
    fail_cnt,
    rule_data,       \* the rule file being handled
    rule_result,     \* what check returned for it
    evaluated,       \* history: check was called for rule_data
    printed,         \* history: print_rule_result was called for rule_data
    logged,          \* history: logging.error was called for rule_data
    ever_evaluated,  \* history: check was called in this run
    n_fail_verdicts, \* history: calls of check that returned the verdict FAIL
    exit_status      \* the status the process ended with; -1 while it runs

vars ==
    <<parse_ok, parse, os_type_found, stigs, failonly, verbosity, rules_dir, n_files,
      pc, idx, fail_cnt, rule_data, rule_result, evaluated, printed, logged,
      ever_evaluated, n_fail_verdicts, exit_status>>

args == <<parse_ok, parse, os_type_found, stigs, failonly, verbosity, rules_dir, n_files>>

\* -------------------------------------------- the evaluator, called directly
\* check(parse, rule) on any tree and any rule.
InitCheck ==
    /\ parse_ok = TRUE
    /\ parse \in Trees
    /\ os_type_found = TRUE
    /\ stigs = {"CAT-A"}
    /\ failonly = FALSE
    /\ verbosity = 0
    /\ rules_dir = "none"
    /\ n_files = 0
    /\ pc = "call"
    /\ idx = 0
    /\ fail_cnt = 0
    /\ rule_data \in Rules
    /\ rule_result = NotCalled
    /\ evaluated = FALSE
    /\ printed = FALSE
    /\ logged = FALSE
    /\ ever_evaluated = FALSE
    /\ n_fail_verdicts = 0
    /\ exit_status = -1

CallCheck ==
    /\ pc = "call"
    /\ rule_result' = check(parse, rule_data)
    /\ evaluated' = TRUE
    /\ ever_evaluated' = TRUE
    /\ pc' = "returned"
    /\ UNCHANGED <<args, idx, fail_cnt, rule_data, printed, logged, n_fail_verdicts,
                   exit_status>>

NextCheck == CallCheck

Spec == InitCheck /\ [][NextCheck]_vars

\* ------------------------------------------------------------------ main
\* sys.exit(n): the status the parent process sees is n modulo this (POSIX).
ExitStatusRange == 256
\* sys.exit(1) of line 121.
ParseErrorStatus == 1
\* The status of a Python process that ends with an uncaught exception.
UncaughtStatus == 1

ExitStatus(n) == n % ExitStatusRange

\* overlap with the requested tags as the default of a missing part_of_stig.
overlap_DefaultAll(requested, rule) ==
    { v \in requested :
        v \in (IF "part_of_stig" \in rule.keys THEN rule.part_of_stig ELSE requested) }

\* Line 134: the requested tags the rule carries.
overlap(requested, rule) ==
    { v \in requested : v \in (IF "part_of_stig" \in rule.keys THEN rule.part_of_stig ELSE {}) }

\* CountFail with every verdict but PASS counted.
CountFail_NotPass(cnt, result) == IF result.success # "PASS" THEN cnt + 1 ELSE cnt

\* Lines 142-143: the fail count after a rule's outcome.
CountFail(cnt, result) == IF result.success = "FAIL" THEN cnt + 1 ELSE cnt

\* Lines 142-146: whether print_rule_result is called for the outcome.
Renders(result, fail_only) == result.success = "FAIL" \/ ~fail_only

\* Lines 19-34: print_rule_result raises KeyError when the rule lacks a field
\* the verbosity level prints.
PrintRaises(rule, verb) ==
    \/ ~("desc" \in rule.keys)
    \/ (verb \in {1, 2} /\ ~("severity" \in rule.keys))

\* Lines 117-121: the configuration does not parse.
ParseFails ==
    /\ pc = "start"
    /\ ~parse_ok
    /\ logged' = TRUE
    /\ exit_status' = ParseErrorStatus
    /\ pc' = "aborted"
    /\ UNCHANGED <<args, idx, fail_cnt, rule_data, rule_result, evaluated, printed,
                   ever_evaluated, n_fail_verdicts>>

\* Line 123: no --os_type and no !@#type: line, so [0] raises IndexError.
OsTypeMissing ==
    /\ pc = "start"
    /\ parse_ok
    /\ ~os_type_found
    /\ exit_status' = UncaughtStatus
    /\ pc' = "crashed"
    /\ UNCHANGED <<args, idx, fail_cnt, rule_data, rule_result, evaluated, printed,
                   logged, ever_evaluated, n_fail_verdicts>>

\* Lines 117-125: the configuration parses and the catalog is listed.
EnterLoop ==
    /\ pc = "start"
    /\ parse_ok
    /\ os_type_found
    /\ pc' = "loop"
    /\ UNCHANGED <<args, idx, fail_cnt, rule_data, rule_result, evaluated, printed,
                   logged, ever_evaluated, n_fail_verdicts, exit_status>>

\* Lines 127-132: yaml.safe_load raises; the error is logged and the loop
\* goes on.
LoadFails ==
    /\ pc = "loop"
    /\ idx < n_files
    /\ \E f \in RuleFiles(rules_dir) :
        /\ f.yaml = "error"
        /\ rule_data' = f
    /\ rule_result' = NotCalled
    /\ evaluated' = FALSE
    /\ printed' = FALSE
    /\ logged' = TRUE
    /\ idx' = idx + 1
    /\ UNCHANGED <<args, pc, fail_cnt, ever_evaluated, n_fail_verdicts, exit_status>>

\* Line 134: the file holds no mapping, so rule_data.get raises.
NotARecord ==
    /\ pc = "loop"
    /\ idx < n_files
    /\ \E f \in RuleFiles(rules_dir) :
        /\ f.yaml = "scalar"
        /\ rule_data' = f
    /\ rule_result' = NotCalled
    /\ evaluated' = FALSE
    /\ printed' = FALSE
    /\ logged' = FALSE
    /\ exit_status' = UncaughtStatus
    /\ pc' = "crashed"
    /\ UNCHANGED <<args, idx, fail_cnt, ever_evaluated, n_fail_verdicts>>

\* Lines 134-136: the rule carries none of the requested tags.
SkipRule ==
    /\ pc = "loop"
    /\ idx < n_files
    /\ \E f \in RuleFiles(rules_dir) :
        /\ f.yaml = "record"
        /\ overlap(stigs, f) = {}
        /\ rule_data' = f
    /\ rule_result' = NotCalled
    /\ evaluated' = FALSE
    /\ printed' = FALSE
    /\ logged' = FALSE
    /\ idx' = idx + 1
    /\ UNCHANGED <<args, pc, fail_cnt, ever_evaluated, n_fail_verdicts, exit_status>>

\* Lines 134-146: the rule carries a requested tag: it is evaluated, counted
\* and printed; an exception of check or of print_rule_result ends the run.
EvaluateRule ==
    /\ pc = "loop"
    /\ idx < n_files
    /\ \E f \in RuleFiles(rules_dir) :
        /\ f.yaml = "record"
        /\ overlap(stigs, f) # {}
        /\ rule_data' = f
        /\ rule_result' = check(parse, f)
        /\ fail_cnt' = IF rule_result'.raised THEN fail_cnt
                       ELSE CountFail(fail_cnt, rule_result')
        /\ n_fail_verdicts' = n_fail_verdicts + (IF rule_result'.success = "FAIL" THEN 1 ELSE 0)
        /\ printed' = (~rule_result'.raised /\ Renders(rule_result', failonly))
        /\ pc' = IF rule_result'.raised \/ (printed' /\ PrintRaises(f, verbosity))
                 THEN "crashed" ELSE "loop"
        /\ exit_status' = IF pc' = "crashed" THEN UncaughtStatus ELSE exit_status
        /\ idx' = IF pc' = "crashed" THEN idx ELSE idx + 1
    /\ evaluated' = TRUE
    /\ ever_evaluated' = TRUE
    /\ logged' = FALSE
    /\ UNCHANGED args

\* Line 148: the catalog is done.
Exit ==
    /\ pc = "loop"
    /\ idx = n_files
    /\ exit_status' = ExitStatus(fail_cnt)
    /\ pc' = "done"
    /\ UNCHANGED <<args, idx, fail_cnt, rule_data, rule_result, evaluated, printed,
                   logged, ever_evaluated, n_fail_verdicts>>

NextRun ==
    \/ ParseFails
    \/ OsTypeMissing
    \/ EnterLoop
    \/ LoadFails
    \/ NotARecord
    \/ SkipRule
    \/ EvaluateRule
    \/ Exit

InitRun ==
    /\ parse_ok \in BOOLEAN
    /\ parse \in IF parse_ok THEN RunTrees ELSE {[n |-> 0, parent |-> <<>>, text |-> <<>>]}
    /\ os_type_found \in BOOLEAN
    /\ stigs \in SUBSET Tags
    /\ failonly \in BOOLEAN
    /\ verbosity \in {0, 1, 2}
    /\ rules_dir = "short"
    /\ n_files \in 0..MaxRules
    /\ pc = "start"
    /\ idx = 0
    /\ fail_cnt = 0
    /\ rule_data = NoRule
    /\ rule_result = NotCalled
    /\ evaluated = FALSE
    /\ printed = FALSE
    /\ logged = FALSE
    /\ ever_evaluated = FALSE
    /\ n_fail_verdicts = 0
    /\ exit_status = -1

SpecRun == InitRun /\ [][NextRun]_vars

InitExit ==
    /\ parse_ok = TRUE
    /\ parse = Chain
    /\ os_type_found = TRUE
    /\ stigs = {"CAT-A"}
    /\ failonly \in BOOLEAN
    /\ verbosity \in {0, 1, 2}
    /\ rules_dir = "long"
    /\ n_files = LongCatalog
    /\ pc = "start"
    /\ idx = 0
    /\ fail_cnt = 0
    /\ rule_data = NoRule
    /\ rule_result = NotCalled
    /\ evaluated = FALSE
    /\ printed = FALSE
    /\ logged = FALSE
    /\ ever_evaluated = FALSE
    /\ n_fail_verdicts = 0
    /\ exit_status = -1

\* In a catalog of well-formed rules every file loads and every call returns.
NextExit ==
    \/ EnterLoop
    \/ SkipRule
    \/ EvaluateRule
    \/ Exit

SpecExit == InitExit /\ [][NextExit]_vars

\* =================================================================== claims
ToSet(seq) == { seq[i] : i \in 1..Len(seq) }

\* A sequence of lines without repeats, in document order.
InDocumentOrder(seq) == \A i, j \in 1..Len(seq) : i < j => seq[i] < seq[j]

\* The lines of the configuration a pattern matches.
MatchedLines(pat) == { i \in 1..parse.n : re_search(pat, parse.text[i]) }

\* The immediate children of a line, and its descendants at any depth.
ChildLines(p) == { c \in 1..parse.n : parse.parent[c] = p }
DescendantLines(p) ==
    { c \in 1..parse.n : c # p /\ p \in AncestorsOrSelf(parse.parent, c) }

\* check returned an outcome for a rule whose parent field holds a pattern.
HierReturned ==
    /\ evaluated
    /\ ~rule_result.raised
    /\ "parent" \in rule_data.check.keys
    /\ rule_data.check.parent # ""

\* check returned an outcome for a rule without a parent field.
GlobalReturned ==
    /\ evaluated
    /\ ~rule_result.raised
    /\ ~("parent" \in rule_data.check.keys)

\* ----------------------------------------------------------------------- C1
\* C1: the verdict of a hierarchical outcome is a function of the three lists:
\* FAIL iff fail is non-empty; N/A iff fail is empty, na is non-empty and pass
\* is empty; PASS otherwise, in particular with no candidate parent at all.
C1_VerdictFromLists ==
    HierReturned =>
        LET r == rule_result
            isFail == r.fail # <<>>
            isNa == r.fail = <<>> /\ r.na # <<>> /\ r.pass = <<>> IN
        /\ r.success \in {"PASS", "FAIL", "N/A"}
        /\ (r.success = "FAIL") <=> isFail
        /\ (r.success = "N/A") <=> isNa
        /\ (r.success = "PASS") <=> (~isFail /\ ~isNa)
        /\ MatchedLines(rule_data.check.parent) = {} =>
               /\ r.success = "PASS"
               /\ r.pass = <<>> /\ r.fail = <<>> /\ r.na = <<>>

\* A failing parent beside a not-applicable one and no passing one: FAIL wins.
C1_Witness ==
    /\ HierReturned
    /\ rule_result.fail # <<>>
    /\ rule_result.na # <<>>
    /\ rule_result.pass = <<>>
    /\ rule_result.success = "FAIL"

\* ----------------------------------------------------------------------- C2
\* C2: every candidate parent is in exactly one of pass, fail and na: the
\* lists are pairwise disjoint, none repeats a parent, none drops one, and
\* together they hold the candidate parents and nothing else.
C2_Partition ==
    HierReturned =>
        LET r == rule_result
            cands == MatchedLines(rule_data.check.parent) IN
        /\ ToSet(r.pass) \cup ToSet(r.fail) \cup ToSet(r.na) = cands
        /\ ToSet(r.pass) \cap ToSet(r.fail) = {}
        /\ ToSet(r.pass) \cap ToSet(r.na) = {}
        /\ ToSet(r.fail) \cap ToSet(r.na) = {}
        /\ Len(r.pass) = Cardinality(ToSet(r.pass))
        /\ Len(r.fail) = Cardinality(ToSet(r.fail))
        /\ Len(r.na) = Cardinality(ToSet(r.na))
        /\ Len(r.pass) + Len(r.fail) + Len(r.na) = Cardinality(cands)

\* Two candidate parents, one nested in the other, in two different lists.
C2_Witness ==
    /\ HierReturned
    /\ Cardinality(MatchedLines(rule_data.check.parent)) = 2
    /\ \E p \in MatchedLines(rule_data.check.parent) :
           parse.parent[p] \in MatchedLines(rule_data.check.parent)
    /\ rule_result.fail # <<>>
    /\ rule_result.pass # <<>>

\* ----------------------------------------------------------------------- C3
\* Whether `when` holds for a parent, looking at the lines of `scope`.
WhenHolds(scope) ==
    \/ rule_data.check.when = YamlTrue
    \/ \E c \in scope : re_search(rule_data.check.when, parse.text[c])

\* The lines of `scope` the child pattern matches.
TextMatches(scope) == { c \in scope : re_search(rule_data.check.text, parse.text[c]) }

\* The classification of the parents by `when` and the child pattern, both
\* looked for in scope[p].
ClassifiedOver(scope) ==
    HierReturned =>
        LET r == rule_result IN
        \A p \in MatchedLines(rule_data.check.parent) :
            /\ ~WhenHolds(scope[p]) =>
                   /\ p \in ToSet(r.na)
                   /\ p \notin ToSet(r.text_searched)
            /\ WhenHolds(scope[p]) =>
                   /\ p \in ToSet(r.text_searched)
                   /\ p \in ToSet(r.pass) <=>
                          Cardinality(TextMatches(scope[p])) = rule_data.check.text_cnt
                   /\ p \in ToSet(r.fail) <=>
                          Cardinality(TextMatches(scope[p])) # rule_data.check.text_cnt

\* C3 as stated: a parent is applicable iff `when` is true or one of its
\* descendants at any depth matches `when`; a parent that is not goes to na
\* and the child pattern is not searched; an applicable parent goes to pass iff
\* the number of its descendants at any depth that match the child pattern is
\* text_cnt, and to fail otherwise.
C3_AnyDepth == ClassifiedOver([p \in 1..parse.n |-> DescendantLines(p)])

\* C3 as amended: the same, with the immediate children of the parent in place
\* of its descendants at any depth.
C3_ImmediateChildren == ClassifiedOver([p \in 1..parse.n |-> ChildLines(p)])

\* A parent whose only line matching `when` is a grandchild: not applicable.
C3_Witness ==
    /\ HierReturned
    /\ \E p \in MatchedLines(rule_data.check.parent) :
        /\ WhenHolds(DescendantLines(p))
        /\ ~WhenHolds(ChildLines(p))
        /\ p \in ToSet(rule_result.na)

\* ----------------------------------------------------------------------- C4
\* C4: a global check with n matched lines: n = text_cnt gives PASS with the
\* matched lines in pass and fail empty, anything else FAIL with the matched
\* lines in fail and pass empty; na is empty, the verdict is never N/A, and the
\* three lists hold n lines in all.
C4_Global ==
    GlobalReturned =>
        LET r == rule_result
            matched == MatchedLines(rule_data.check.text)
            n == Cardinality(matched) IN
        /\ n = rule_data.check.text_cnt =>
               /\ r.success = "PASS"
               /\ ToSet(r.pass) = matched /\ InDocumentOrder(r.pass)
               /\ r.fail = <<>>
        /\ n # rule_data.check.text_cnt =>
               /\ r.success = "FAIL"
               /\ ToSet(r.fail) = matched /\ InDocumentOrder(r.fail)
               /\ r.pass = <<>>
        /\ r.na = <<>>
        /\ r.success # "N/A"
        /\ Len(r.pass) + Len(r.fail) + Len(r.na) = n

\* Three matched lines where one was expected.
C4_Witness ==
    /\ GlobalReturned
    /\ rule_data.check.text_cnt = 1
    /\ Len(rule_result.fail) = 3
    /\ rule_result.success = "FAIL"

\* ---------------------------------------------------------------------- C10
\* The rule with its `when` field set to w, or removed.
WithWhen(rule, w) ==
    [rule EXCEPT !.check.keys = @ \cup {"when"}, !.check.when = w]
WithoutWhen(rule) ==
    [rule EXCEPT !.check.keys = @ \ {"when"}, !.check.when = Absent]

\* The outcome is the global algorithm's, whatever `when` is.
GlobalWhateverWhen ==
    /\ rule_result = _check_global(parse, WithoutWhen(rule_data))
    /\ \A w \in WhenValues \cup {"w|t", ""} :
           rule_result = _check_global(parse, WithWhen(rule_data, w))

\* C10 as stated: a rule whose check record contains `parent` is evaluated by
\* the hierarchical algorithm, a rule whose check record does not by the
\* global algorithm, whose outcome does not depend on `when`.
C10_ByPresence ==
    (evaluated /\ "check" \in rule_data.keys) =>
        IF "parent" \in rule_data.check.keys
        THEN rule_result = _check_hier(parse, rule_data)
        ELSE GlobalWhateverWhen

\* C10 as amended: a rule whose check record contains a `parent` that is true
\* in Python's sense (not the empty string) is evaluated by the hierarchical
\* algorithm, every other rule by the global algorithm, whose outcome does not
\* depend on `when`.
C10_ByTruth ==
    (evaluated /\ "check" \in rule_data.keys) =>
        IF "parent" \in rule_data.check.keys /\ rule_data.check.parent # ""
        THEN rule_result = _check_hier(parse, rule_data)
        ELSE GlobalWhateverWhen

\* A rule with an empty `parent` and a `when`, evaluated globally to FAIL.
C10_Witness ==
    /\ evaluated
    /\ "parent" \in rule_data.check.keys
    /\ rule_data.check.parent = ""
    /\ "when" \in rule_data.check.keys
    /\ rule_result.success = "FAIL"
    /\ rule_result.fail # <<>>

\* ----------------------------------------------------------------------- C5
\* C5: a run that completes its rule list ends with the number of applicable
\* rules whose verdict is FAIL, modulo 256, as its exit status, whatever
\* failonly and verbosity are: fail_cnt is that number at every point of the
\* run, and failonly keeps only outcomes other than FAIL from being printed.
C5_ExitStatus ==
    /\ fail_cnt = n_fail_verdicts
    /\ pc = "done" => exit_status = n_fail_verdicts % 256
    /\ (evaluated /\ failonly /\ rule_result.success \in {"PASS", "N/A"}) => ~printed

\* A failures-only run at verbosity 2 with 256 FAIL verdicts ends with status 0.
C5_Witness ==
    /\ pc = "done"
    /\ failonly
    /\ verbosity = 2
    /\ n_fail_verdicts = 256
    /\ exit_status = 0

\* ----------------------------------------------------------------------- C6
\* The rule being handled carries a requested tag.
SharesTag ==
    "part_of_stig" \in rule_data.keys /\ rule_data.part_of_stig \cap stigs # {}

\* C6 as stated: a loaded rule is evaluated and reported iff it carries a
\* requested tag (in the runs no exception ends).
C6_ReportedIffTagged ==
    (rule_data.yaml = "record" /\ pc \in {"loop", "done"}) =>
        /\ evaluated <=> SharesTag
        /\ printed <=> SharesTag

\* What is true of the rule being handled after each step of the loop.
C6_Handled ==
    rule_data.yaml = "record" =>
        /\ evaluated <=> SharesTag
        /\ ~SharesTag => (~printed /\ rule_result = NotCalled)
        /\ printed <=> /\ evaluated
                       /\ ~rule_result.raised
                       /\ (rule_result.success = "FAIL" \/ ~failonly)

\* What handling a loaded rule does to fail_cnt.
C6_Counted ==
    (rule_data'.yaml = "record" /\ pc = "loop" /\ pc' # "done") =>
        fail_cnt' = IF SharesTag' /\ rule_result'.success = "FAIL"
                    THEN fail_cnt + 1 ELSE fail_cnt

\* C6 as amended: a loaded rule record is passed to the evaluator iff it
\* carries a requested tag; a rule that carries none (no part_of_stig field, or
\* no requested tag at all) is never evaluated, never printed and leaves
\* fail_cnt as it is; an evaluated rule is printed iff check returned and the
\* verdict is FAIL or failonly is off, and raises fail_cnt, by one, iff its
\* verdict is FAIL.
C6_EvaluatedIffTagged == []C6_Handled /\ [][C6_Counted]_vars

\* A run with no requested tag at all that skipped a tagged rule and ended
\* with status 0.
C6_Witness ==
    /\ pc = "done"
    /\ stigs = {}
    /\ rule_data.yaml = "record"
    /\ rule_data.part_of_stig # {}
    /\ ~evaluated
    /\ ~printed
    /\ ~ever_evaluated
    /\ exit_status = 0

\* ----------------------------------------------------------------------- C7
\* C7: a configuration that does not parse ends the run before any rule is
\* evaluated, with a status no run that completes its rule list ends with.
C7_DistinctStatus ==
    /\ pc = "aborted" => (~ever_evaluated /\ exit_status = ParseErrorStatus)
    /\ pc = "done" => exit_status # ParseErrorStatus

\* ----------------------------------------------------------------------- C8
\* C8: when check raises for a rule, the error is logged, the rule counts for
\* nothing and the run goes on with the next rule.
C8_ErrorIsolated ==
    (evaluated /\ rule_result.raised) =>
        /\ logged
        /\ pc \in {"loop", "done"}
        /\ fail_cnt = n_fail_verdicts

\* ----------------------------------------------------------------------- C9
\* The rule file being handled is malformed: it does not deserialize, or to
\* no record, or to a record that lacks a field its check needs.
Malformed ==
    \/ rule_data.yaml \in {"error", "scalar"}
    \/ /\ rule_data.yaml = "record"
       /\ evaluated
       /\ \/ ~("check" \in rule_data.keys)
          \/ ~({"text", "text_cnt"} \subseteq rule_data.check.keys)
          \/ ("parent" \in rule_data.check.keys /\ ~("when" \in rule_data.check.keys))

\* C9: a malformed rule record is skipped and logged, and the run goes on.
C9_MalformedSkipped ==
    Malformed => (logged /\ pc \in {"loop", "done"})

====
